---- MODULE Spec2Model ----
(***************************************************************************)
(* Model of app/task_executor/opencode_sdk.py: the OpenCodeSDKClient       *)
(* process supervisor (connect / disconnect), the readiness probe          *)
(* wait_until_port_is_ready_to_connect, and the session operations         *)
(* create_session / query / compact layered on the call_opencode_api_*     *)
(* helpers.                                                                *)
(*                                                                         *)
(* One task calls connect() and disconnect() one after the other on one    *)
(* supervisor instance; a second task issues session operations.  The      *)
(* spawned subprocesses are the environment: a live one may exit on its    *)
(* own at any moment.                                                      *)
(*                                                                         *)
(* Beside that specification (Spec) the module holds, each with its own    *)
(* variables and next-state relation: the configuration sync loop          *)
(* update_config_task with get_models_fn (SpecSync), the reply text of a   *)
(* query (SpecParts), two supervisors sharing the host's ports (SpecTwo),  *)
(* connect() alone with a fair probe (SpecProbeFair), the Rentcast tools   *)
(* of app/task_executor/mcps/rentcast/main.py (SpecTools), and query()     *)
(* beside a task that disconnects the supervisor (SpecRace).               *)
(***************************************************************************)
EXTENDS Integers, Sequences, FiniteSets, TLC

VARIABLES
    process,    \* self.process : None or the handle of a spawned subprocess
    port,       \* self.port    : None or a port number
    procs,      \* the subprocesses this instance has spawned, by handle
    pc,         \* position of the task calling connect() / disconnect()
    cPort,      \* connect(): local `port`
    cProc,      \* connect(): the handle passed to the readiness probe
    elapsed,    \* probe: time.time() - start_time
    cLog,       \* connect(): what the current call has done so far, in order
    cFresh,     \* connect(): self.process was None when the call started
    cResult,    \* connect(): "none" | "ok" | "raised"
    cCause,     \* connect(): the exception raised to the caller
    dPid,       \* disconnect(): the handle found in self.process
    dLog,       \* disconnect(): what the current call has done so far
    dAfterOk,   \* disconnect(): the call directly follows a successful connect()
    dResult,    \* disconnect(): "none" | "returned" | "raised"
    spc,        \* position of the task issuing session operations
    opKind,     \* session operation: "none" | "create_session" | "query" | "compact"
    opLive,     \* the stored subprocess was alive when the operation was called
    opHttp,     \* HTTP requests the operation has issued
    opAlerts,   \* alerts the operation has sent
    opResult,   \* "none" | "raised" | "returned"
    opValue,    \* what the operation returned
    opGiven,    \* the session_id argument of the operation, or None
    opSid,      \* the session id the operation got from a session creation
    opReqs,     \* the HTTP requests of the operation, in order, with their answers
    scope,      \* the `async with` block the caller is in, if any
    syncPc,          \* position of the task running update_config_task()
    repeat_interval, \* update_config_task(): its argument
    gwResp,          \* the LLM gateway's answer to GET /models in this cycle
    fetched,         \* what get_models_fn() did with it: returned value or raise
    config,          \* the `config` dict built in this cycle
    file,            \* the content of ~/.config/opencode/opencode.json
    syncErr,         \* the step whose exception this cycle logged, or "none"
    syncWrote,       \* json.dump completed in this cycle
    truncated,       \* what the file held when this cycle's open() emptied it
    cycles,          \* cycles update_config_task() has begun
    writes,          \* documents update_config_task() has written in full
    parts,           \* call_opencode_api_query: response_json.get("parts", [])
    idx,             \* number of items the `for item in parts` loop has seen
    response_text,   \* call_opencode_api_query: local `response_text`
    reply,           \* None, or what query() returned
    iPc,             \* two supervisors: position of each one's caller
    iLocal,          \* two supervisors: connect()'s local `port` of each
    iPort,           \* two supervisors: self.port of each
    iProcess,        \* two supervisors: self.process of each
    child,           \* two supervisors: the subprocess of each and its port
    tPc,             \* Rentcast tool call: its position
    call,            \* Rentcast tool call: the tool and its arguments
    apiKey,          \* whether RENTCAST_API_KEY is configured
    requests,        \* make_request calls of the tool call
    httpGets,        \* HTTP GETs of the tool call
    httpEnd,         \* how the GET of make_request ended, "none" before it did
    data,            \* what make_request returned
    result,          \* what the tool returned, or that it raised
    rProcess,        \* query() beside disconnect(): self.process
    rPort,           \* query() beside disconnect(): self.port
    rSpawned,        \* query() beside disconnect(): subprocesses spawned so far
    rPc,             \* query() beside disconnect(): position of the task in query()
    rChecked,        \* the port of the subprocess stored when the assert passed
    rReqs,           \* the requests of the query() call, with the port of each
    rResult          \* "none" | "returned" | "raised"

vars == <<process, port, procs, pc, cPort, cProc, elapsed, cLog, cFresh,
          cResult, cCause, dPid, dLog, dAfterOk, dResult,
          spc, opKind, opLive, opHttp, opAlerts, opResult, opValue,
          opGiven, opSid, opReqs, scope,
          syncPc, repeat_interval, gwResp, fetched, config, file, syncErr,
          syncWrote, truncated, cycles, writes,
          parts, idx, response_text, reply,
          iPc, iLocal, iPort, iProcess, child,
          tPc, call, apiKey, requests, httpGets, httpEnd, data, result,
          rProcess, rPort, rSpawned, rPc, rChecked, rReqs, rResult>>

syncVars == <<syncPc, repeat_interval, gwResp, fetched, config, file, syncErr,
              syncWrote, truncated, cycles, writes>>
partVars == <<parts, idx, response_text, reply>>
twoVars  == <<iPc, iLocal, iPort, iProcess, child>>
toolVars == <<tPc, call, apiKey, requests, httpGets, httpEnd, data, result>>
raceVars == <<rProcess, rPort, rSpawned, rPc, rChecked, rReqs, rResult>>
\* What the supervisor and its session operations never touch.
restVars == <<syncVars, partVars, twoVars, toolVars, raceVars>>
mainVars == <<process, port, procs, pc, cPort, cProc, elapsed, cLog, cFresh,
              cResult, cCause, dPid, dLog, dAfterOk, dResult,
              spc, opKind, opLive, opHttp, opAlerts, opResult, opValue,
              opGiven, opSid, opReqs, scope>>
\* What each of the other components never touches.
notSync  == <<mainVars, partVars, twoVars, toolVars, raceVars>>
notParts == <<mainVars, syncVars, twoVars, toolVars, raceVars>>
notTwo   == <<mainVars, syncVars, partVars, toolVars, raceVars>>
notTools == <<mainVars, syncVars, partVars, twoVars, raceVars>>
notRace  == <<mainVars, syncVars, partVars, twoVars, toolVars>>

supVars  == <<process, port>>
conVars  == <<cPort, cProc, elapsed, cLog, cFresh, cResult, cCause>>
disVars  == <<dPid, dLog, dAfterOk, dResult>>
opVars   == <<spc, opKind, opLive, opHttp, opAlerts, opResult, opValue,
             opGiven, opSid, opReqs>>

(***************************************************************************)
(* Bounds of the model.                                                    *)
(***************************************************************************)
MaxSpawns    == 2      \* subprocesses one instance spawns over its lifetime
MaxPort      == 2      \* ports the operating system hands out: 1..MaxPort
MaxExitDelay == 6      \* longest time a subprocess takes to obey SIGTERM
MaxSession   == 2      \* session ids the server hands out: 1..MaxSession
MaxModels    == 2      \* entries in the gateway's model list
MaxParts     == 3      \* content parts in one message response
MaxCycles    == 2      \* cycles and writes of the sync loop are counted up to here
MaxItems     == 2      \* items in one Rentcast API response
MaxInterval  == 1      \* repeat_interval ranges over -MaxInterval..MaxInterval
timeout      == 4      \* the probe's time budget (timeout=120 in the source),
                       \* shortened: the loop only compares elapsed time with it

(***************************************************************************)
(* Program constants.                                                      *)
(***************************************************************************)
SleepInterval == 1     \* asyncio.sleep(1) between two probe attempts
GetTimeout    == 1     \* httpx.Timeout(1, connect=1) of one probe attempt
TerminateWait == 5     \* asyncio.wait_for(self.process.wait(), timeout=5)
MinLimit      == 1     \* rentcast: limit < 1 is rejected
MaxLimit      == 1000  \* rentcast: limit > 1000 is rejected
ActiveSince   == 1974  \* rentcast: is_property_active, year_built >= 1974

Ports == 1..MaxPort
SessionIds == 1..MaxSession

\* Optional values: None, or a value wrapped in a one-element set.
None      == {}
Some(x)   == {x}
The(o)    == CHOOSE x \in o : TRUE

Range(s)  == {s[i] : i \in 1..Len(s)}
\* Position of the first occurrence of e in s, 0 when absent.
Pos(s, e) == IF e \in Range(s)
             THEN CHOOSE i \in 1..Len(s) : s[i] = e /\ \A j \in 1..(i-1) : s[j] # e
             ELSE 0
Logged(s, e)  == IF e \in Range(s) THEN s ELSE Append(s, e)

\* No `async with` block is open.
NoScope   == [at |-> "none", block |-> "none", result |-> "none"]

Pids      == 1..Len(procs)
IsAlive(p) == p \in Pids /\ procs[p].alive
LivePids  == {p \in Pids : procs[p].alive}
LivePorts == UNION {procs[p].port : p \in LivePids}

\* The subprocess p is gone: its exit code is set and its port is free again.
Exited(ps, p) == [ps EXCEPT ![p].alive = FALSE, ![p].port = None]

(***************************************************************************)
(* The LLM gateway's answers to GET /models, as get_models_fn sees them.   *)
(***************************************************************************)
ModelIds   == {"m1", "m2"}
ModelNames == {"Model One", "Model Two"}
\* One entry of the gateway's data list: "id" and "name" may be missing, and
\* the gateway sends fields get_models_fn does not keep.
Entries    == [id : {None} \cup {Some(i) : i \in ModelIds},
               name : {None} \cup {Some(n) : n \in ModelNames},
               owned_by : {"org"}]
SeqsUpTo(S, n) == UNION {[1..k -> S] : k \in 0..n}
DataLists  == SeqsUpTo(Entries, MaxModels)
NoResponse == [status |-> "none", body |-> "none", data |-> <<>>]
Responses  ==
    {[status |-> st, body |-> "none", data |-> <<>>] : st \in {"unreachable", "non200"}}
    \cup {[status |-> "200", body |-> b, data |-> <<>>] : b \in {"not_json", "no_data"}}
    \cup {[status |-> "200", body |-> "data", data |-> d] : d \in DataLists}

Returned(v) == [raised |-> "none", value |-> v]
Raised(e)   == [raised |-> e, value |-> <<>>]
NoFile      == [state |-> "absent", doc |-> None]

\* update_config_task() has not been called.
SyncIdle ==
    /\ syncPc = "idle" /\ repeat_interval = 0
    /\ gwResp = NoResponse /\ fetched = Returned(<<>>)
    /\ config = None /\ file = NoFile
    /\ syncErr = "none" /\ syncWrote = FALSE
    /\ truncated = NoFile /\ cycles = 0 /\ writes = 0

(***************************************************************************)
(* The content parts of a message response, as call_opencode_api_query     *)
(* sees them.  A text is a sequence of tokens: blanks, letters, and the    *)
(* two markers of a think block.                                           *)
(***************************************************************************)
Texts     == { <<>>, <<" ">>, <<"a">>, <<" ", "b", " ">>,
               <<"<think>", "t", "</think>", "c">> }
\* One part: its "type", and its "text" when it has one.
Parts     == [type : {"text", "tool"}, text : {None} \cup {Some(t) : t \in Texts}]
PartLists == SeqsUpTo(Parts, MaxParts)

\* call_opencode_api_query() has not received a response.
PartsIdle ==
    /\ parts = <<>> /\ idx = 0 /\ response_text = <<>> /\ reply = None

(***************************************************************************)
(* Two OpenCodeSDKClient instances side by side.                           *)
(***************************************************************************)
Sups     == {"A", "B"}
NoChild  == [state |-> "none", port |-> None]

\* Neither instance has been used.
TwoIdle ==
    /\ iPc = [i \in Sups |-> "idle"]
    /\ iLocal = [i \in Sups |-> None] /\ iPort = [i \in Sups |-> None]
    /\ iProcess = [i \in Sups |-> None]
    /\ child = [i \in Sups |-> NoChild]

\* No Rentcast tool has been called.
NoCall   == [tool |-> "none"]
NoData   == [shape |-> "unset"]
NoResult == [kind |-> "none"]
ToolsIdle ==
    /\ tPc = "idle" /\ call = NoCall /\ apiKey = FALSE
    /\ requests = 0 /\ httpGets = 0 /\ httpEnd = "none"
    /\ data = NoData /\ result = NoResult

\* query() beside disconnect(): nothing is stored and no query() was called.
RaceIdle ==
    /\ rProcess = None /\ rPort = None /\ rSpawned = 0
    /\ rPc = "idle" /\ rChecked = None /\ rReqs = <<>> /\ rResult = "none"

\* No supervisor call has been made.
SupervisorIdle ==
    /\ process = None /\ port = None /\ procs = <<>>
    /\ pc = "idle"
    /\ cPort = None /\ cProc = None /\ elapsed = 0 /\ cLog = <<>>
    /\ cFresh = TRUE /\ cResult = "none" /\ cCause = "none"
    /\ dPid = None /\ dLog = <<>> /\ dAfterOk = FALSE /\ dResult = "none"
    /\ spc = "idle" /\ opKind = "none" /\ opLive = FALSE
    /\ opHttp = 0 /\ opAlerts = 0 /\ opResult = "none" /\ opValue = "none"
    /\ opGiven = None /\ opSid = None /\ opReqs = <<>>
    /\ scope = NoScope

Init == SupervisorIdle /\ SyncIdle /\ PartsIdle /\ TwoIdle /\ ToolsIdle /\ RaceIdle

(***************************************************************************)
(* Environment: a live subprocess exits on its own.                        *)
(***************************************************************************)
ProcessExit ==
    /\ \E p \in LivePids : procs' = Exited(procs, p)
    /\ UNCHANGED <<restVars, scope, supVars, pc, conVars, disVars, opVars>>

(***************************************************************************)
(* connect(), lines 188-230.                                               *)
(***************************************************************************)
NewProc(p) == [alive |-> TRUE, port |-> Some(p)]

\* process.kill() on a handle: SIGKILL ends a live subprocess; on a subprocess
\* that has already exited asyncio raises ProcessLookupError and signals nothing.
Kill(ps, p) ==
    Exited(ps, p)

\* The exception leaves connect(): `raise e` or an uncaught failure.  The
\* local `port` is gone with the call.
ConnectRaises(cause) ==
    /\ pc' = "idle" /\ cResult' = "raised" /\ cCause' = cause /\ elapsed' = 0
    /\ cPort' = None

\* A caller invokes connect(); nothing stops it from doing so on an instance
\* that is already connected.  The records of the previous call (cLog,
\* cResult, dLog, dResult, ...) are dropped when the next call starts.
ConnectStarts ==
    /\ pc = "idle"
    /\ Len(procs) < MaxSpawns
    /\ pc' = "c_port"
    /\ cPort' = None /\ cProc' = None /\ elapsed' = 0 /\ cLog' = <<>>
    /\ cFresh' = (process = None /\ port = None)
    /\ cResult' = "none" /\ cCause' = "none"
    /\ dResult' = "none" /\ dLog' = <<>> /\ dPid' = None /\ dAfterOk' = FALSE
    /\ UNCHANGED <<restVars, supVars, procs, opVars>>

\* connect() called directly, outside any `async with` block.
connect_call ==
    /\ scope.at \in {"none", "done"}
    /\ ConnectStarts
    /\ scope' = NoScope

\* line 189: port = await pick_random_available_port()
pick_random_available_port ==
    /\ pc = "c_port"
    /\ \/ \E p \in Ports \ LivePorts :
            /\ cPort' = Some(p) /\ cLog' = Append(cLog, "port")
            /\ pc' = "c_provision"
            /\ UNCHANGED <<elapsed, cResult, cCause>>
       \/ /\ ConnectRaises("bind_failed")          \* s.bind raises OSError
          /\ UNCHANGED cLog
    /\ UNCHANGED <<restVars, scope, supVars, procs, cProc, cFresh, disVars, opVars>>

\* line 194: create_user_and_assign_folder(user, self.working_dir)
create_user_and_assign_folder ==
    /\ pc = "c_provision"
    /\ \/ /\ pc' = "c_binary" /\ cLog' = Append(cLog, "provision")
          /\ UNCHANGED <<cPort, elapsed, cResult, cCause>>
       \/ /\ ConnectRaises("provision_failed")
          /\ UNCHANGED cLog
    /\ UNCHANGED <<restVars, scope, supVars, procs, cProc, cFresh, disVars, opVars>>

\* line 207 (lines 16-30): await find_opencode_binary(), evaluated as an
\* argument before create_subprocess_exec is called.
find_opencode_binary ==
    /\ pc = "c_binary"
    /\ \/ /\ pc' = "c_spawn" /\ cLog' = Append(cLog, "binary")
          /\ UNCHANGED <<cPort, elapsed, cResult, cCause>>
       \/ /\ ConnectRaises("binary_not_found")
          /\ UNCHANGED cLog
    /\ UNCHANGED <<restVars, scope, supVars, procs, cProc, cFresh, disVars, opVars>>

\* Variant: the subprocess is started on a port other than the allocated one.
create_subprocess_exec_other_port ==
    /\ pc = "c_spawn"
    /\ \E p \in Ports :
          /\ procs' = Append(procs, NewProc(p))
          /\ process' = Some(Len(procs) + 1)
          /\ port' = cPort
          /\ cProc' = Some(Len(procs) + 1)
          /\ cLog' = Append(cLog, "spawn")
          /\ pc' = "p_loop" /\ elapsed' = 0
          /\ UNCHANGED <<cResult, cCause>>
    /\ UNCHANGED <<restVars, scope, cPort, cFresh, disVars, opVars>>

\* lines 206-214: self.process = await create_subprocess_exec(...);
\* self.port = port.  The previous value of self.process is overwritten.
create_subprocess_exec ==
    /\ pc = "c_spawn"
    /\ \/ /\ procs' = Append(procs, NewProc(The(cPort)))
          /\ process' = Some(Len(procs) + 1)
          /\ port' = cPort
          /\ cProc' = Some(Len(procs) + 1)
          /\ cLog' = Append(cLog, "spawn")
          /\ pc' = "p_loop" /\ elapsed' = 0
          /\ UNCHANGED <<cPort, cResult, cCause>>
       \/ /\ ConnectRaises("spawn_failed")
          /\ UNCHANGED <<supVars, procs, cProc, cLog>>
    /\ UNCHANGED <<restVars, scope, cFresh, disVars, opVars>>

(***************************************************************************)
(* wait_until_port_is_ready_to_connect(port, process, timeout), lines      *)
(* 165-179.                                                                *)
(***************************************************************************)
\* Variant: a failed attempt ends the probe instead of being logged.
probe_attempt_aborts ==
    /\ pc = "p_loop"
    /\ elapsed < timeout
    /\ IF ~IsAlive(The(cProc))
       THEN /\ cLog' = Logged(cLog, "exit_seen")
            /\ pc' = "p_sleep"
            /\ UNCHANGED <<elapsed, cResult>>
       ELSE \E answer \in {"200", "non200", "refused", "timed_out"} :
               /\ cLog' = Logged(cLog, "get")
               /\ IF answer = "200"
                  THEN /\ pc' = "idle" /\ cResult' = "ok" /\ elapsed' = 0
                  ELSE /\ pc' = "c_alert"
                       /\ elapsed' = elapsed + (IF answer = "timed_out" THEN GetTimeout ELSE 0)
                       /\ UNCHANGED cResult
    /\ UNCHANGED <<restVars, scope, supVars, procs, cPort, cProc, cFresh, cCause, disVars, opVars>>

\* Variant: the attempt sends its GET without looking at process.returncode.
probe_attempt_no_exit_check ==
    /\ pc = "p_loop"
    /\ elapsed < timeout
    /\ \E answer \in {"200", "non200", "refused", "timed_out"} :
          /\ IsAlive(The(cProc)) \/ answer \in {"refused", "timed_out"}
          /\ cLog' = Logged(cLog, "get")
          /\ IF answer = "200"
             THEN /\ pc' = "idle" /\ cResult' = "ok" /\ elapsed' = 0
             ELSE /\ pc' = "p_sleep"
                  /\ elapsed' = elapsed + (IF answer = "timed_out" THEN GetTimeout ELSE 0)
                  /\ UNCHANGED cResult
    /\ UNCHANGED <<restVars, scope, supVars, procs, cPort, cProc, cFresh, cCause, disVars, opVars>>

\* lines 168-177: one pass of the loop body.  Every exception raised inside
\* the try block, the RuntimeError of line 171 included, is caught by the
\* `except Exception` of line 176, which only logs.
probe_attempt ==
    /\ pc = "p_loop"
    /\ elapsed < timeout
    /\ IF ~IsAlive(The(cProc))
       THEN \* line 170-171: raise RuntimeError(exit code), caught at 176
            /\ cLog' = Logged(cLog, "exit_seen")
            /\ pc' = "p_sleep"
            /\ UNCHANGED <<elapsed, cResult>>
       ELSE \* line 173: GET /app
            \E answer \in {"200", "non200", "refused", "timed_out"} :
               /\ cLog' = Logged(cLog, "get")
               /\ IF answer = "200"
                  THEN \* line 175: return True; connect() returns
                       /\ pc' = "idle" /\ cResult' = "ok" /\ elapsed' = 0
                  ELSE \* the assert of line 174 or the transport error is caught
                       /\ pc' = "p_sleep"
                       /\ elapsed' = elapsed + (IF answer = "timed_out" THEN GetTimeout ELSE 0)
                       /\ UNCHANGED cResult
    /\ UNCHANGED <<restVars, scope, supVars, procs, cPort, cProc, cFresh, cCause, disVars, opVars>>

\* line 179: await asyncio.sleep(1)
probe_sleep ==
    /\ pc = "p_sleep"
    /\ elapsed' = elapsed + SleepInterval
    /\ pc' = "p_loop"
    /\ UNCHANGED <<restVars, scope, supVars, procs, cPort, cProc, cLog, cFresh, cResult, cCause, disVars, opVars>>

\* line 168: the loop condition fails; the function falls off its end and
\* returns None, so line 217 takes the branch of lines 218-219.
probe_timeout ==
    /\ pc = "p_loop"
    /\ elapsed >= timeout
    /\ pc' = "c_alert"
    /\ cLog' = Append(cLog, "probe_failed")
    /\ UNCHANGED <<restVars, scope, supVars, procs, cPort, cProc, elapsed, cFresh, cResult, cCause,
                   disVars, opVars>>

wait_until_port_is_ready_to_connect ==
    probe_attempt \/ probe_sleep \/ probe_timeout

\* lines 218-219: await send_alert(...); raise RuntimeError("Failed to start
\* OpenCode server")
connect_alert ==
    /\ pc = "c_alert"
    /\ cLog' = Append(cLog, "alert")
    /\ cCause' = "failed_to_start"
    /\ pc' = "c_except"
    /\ UNCHANGED <<restVars, scope, supVars, procs, cPort, cProc, elapsed, cFresh, cResult, disVars, opVars>>

\* Variant: the handler clears the stored state without killing.
connect_cleanup_no_kill ==
    /\ pc = "c_except"
    /\ process' = None /\ port' = None
    /\ pc' = "idle" /\ cResult' = "raised" /\ elapsed' = 0 /\ cPort' = None
    /\ UNCHANGED <<restVars, scope, procs, cProc, cLog, cFresh, cCause, disVars, opVars>>

\* Variant: the handler forgets to clear self.port.
connect_cleanup_keeps_port ==
    /\ pc = "c_except"
    /\ IF process # None
       THEN /\ procs' = Kill(procs, The(process))
            /\ cLog' = Append(cLog, "kill")
            /\ process' = None /\ UNCHANGED port
       ELSE UNCHANGED <<supVars, procs, cLog>>
    /\ pc' = "idle" /\ cResult' = "raised" /\ elapsed' = 0 /\ cPort' = None
    /\ UNCHANGED <<restVars, scope, cProc, cFresh, cCause, disVars, opVars>>

\* lines 221-230: except Exception as e: kill (errors swallowed), clear the
\* stored handle and port, raise e.
connect_cleanup ==
    /\ pc = "c_except"
    /\ IF process # None
       THEN /\ procs' = Kill(procs, The(process))
            /\ cLog' = Append(cLog, "kill")
            /\ process' = None /\ port' = None
       ELSE UNCHANGED <<supVars, procs, cLog>>
    /\ pc' = "idle" /\ cResult' = "raised" /\ elapsed' = 0 /\ cPort' = None
    /\ UNCHANGED <<restVars, scope, cProc, cFresh, cCause, disVars, opVars>>

connect ==
    \/ connect_call
    \/ pick_random_available_port
    \/ create_user_and_assign_folder
    \/ find_opencode_binary
    \/ create_subprocess_exec
    \/ wait_until_port_is_ready_to_connect
    \/ connect_alert
    \/ connect_cleanup

(***************************************************************************)
(* disconnect(), lines 233-244.                                            *)
(***************************************************************************)
\* Variant: the finally block clears the handle and leaves the port.
DisconnectClears_handle_only == process' = None /\ UNCHANGED port

\* The finally block of lines 242-244.
DisconnectClears == process' = None /\ port' = None

\* line 234: if self.process
DisconnectStarts ==
    /\ pc = "idle"
    /\ dPid' = process /\ dLog' = <<>>
    /\ dAfterOk' = (cResult = "ok")
    /\ cResult' = "none" /\ cCause' = "none" /\ cLog' = <<>>
    /\ cPort' = None /\ cProc' = None
    /\ IF process = None
       THEN pc' = "idle" /\ dResult' = "returned"
       ELSE pc' = "d_terminate" /\ dResult' = "none"
    /\ UNCHANGED <<restVars, supVars, procs, elapsed, cFresh, opVars>>

\* disconnect() called directly, outside any `async with` block.
disconnect_call ==
    /\ scope.at \in {"none", "done"}
    /\ DisconnectStarts
    /\ scope' = NoScope

\* line 236: self.process.terminate().  On a subprocess that has exited and
\* whose transport is closed asyncio raises ProcessLookupError, which the
\* `except asyncio.TimeoutError` of line 238 does not catch: the finally block
\* runs and the exception leaves disconnect().  Before the event loop has
\* noticed the exit the call returns without signalling.
disconnect_terminate ==
    /\ pc = "d_terminate"
    /\ LET p == The(process) IN
       IF IsAlive(p)
       THEN /\ dLog' = Append(dLog, "terminate")
            /\ pc' = "d_wait"
            /\ UNCHANGED <<supVars, procs, dResult>>
       ELSE \/ /\ dLog' = Append(dLog, "terminate_raised")
               /\ DisconnectClears
               /\ pc' = "idle" /\ dResult' = "raised"
               /\ UNCHANGED procs
            \/ /\ dLog' = Append(dLog, "terminate_noop")
               /\ pc' = "d_wait"
               /\ UNCHANGED <<supVars, procs, dResult>>
    /\ UNCHANGED <<restVars, scope, conVars, dPid, dAfterOk, opVars>>

\* Variant: the forced kill follows the wait whether or not it timed out.
disconnect_wait_always_kills ==
    /\ pc = "d_wait"
    /\ LET p == The(process) IN
       \E delay \in 0..MaxExitDelay :
          /\ IF ~IsAlive(p) \/ delay < TerminateWait
             THEN /\ procs' = Exited(procs, p)
                  /\ dLog' = Append(dLog, "exited")
             ELSE /\ dLog' = Append(dLog, "timeout")
                  /\ UNCHANGED procs
          /\ pc' = "d_kill"
          /\ UNCHANGED <<supVars, dResult>>
    /\ UNCHANGED <<restVars, scope, conVars, dPid, dAfterOk, opVars>>

\* line 237: await asyncio.wait_for(self.process.wait(), timeout=5).  A
\* subprocess that got SIGTERM exits after some delay, or not at all.
disconnect_wait ==
    /\ pc = "d_wait"
    /\ LET p == The(process) IN
       \E delay \in 0..MaxExitDelay :
          IF ~IsAlive(p) \/ delay < TerminateWait
          THEN /\ procs' = Exited(procs, p)
               /\ dLog' = Append(dLog, "exited")
               /\ DisconnectClears
               /\ pc' = "idle" /\ dResult' = "returned"
          ELSE /\ dLog' = Append(dLog, "timeout")
               /\ pc' = "d_kill"
               /\ UNCHANGED <<supVars, procs, dResult>>
    /\ UNCHANGED <<restVars, scope, conVars, dPid, dAfterOk, opVars>>

\* Variant: after the timeout the state is cleared but no kill is sent.
disconnect_kill_skipped ==
    /\ pc = "d_kill"
    /\ dLog' = Append(dLog, "kill")
    /\ DisconnectClears
    /\ pc' = "idle" /\ dResult' = "returned"
    /\ UNCHANGED <<restVars, scope, procs, conVars, dPid, dAfterOk, opVars>>

\* lines 238-244: except asyncio.TimeoutError: self.process.kill(), errors
\* swallowed; then the finally block.
disconnect_kill ==
    /\ pc = "d_kill"
    /\ procs' = Kill(procs, The(process))
    /\ dLog' = Append(dLog, "kill")
    /\ DisconnectClears
    /\ pc' = "idle" /\ dResult' = "returned"
    /\ UNCHANGED <<restVars, scope, conVars, dPid, dAfterOk, opVars>>

disconnect ==
    \/ disconnect_call
    \/ disconnect_terminate
    \/ disconnect_wait
    \/ disconnect_kill

(***************************************************************************)
(* Session operations, lines 246-292, over the call_opencode_api_* helpers *)
(* of lines 32-153.                                                        *)
(***************************************************************************)
\* `assert self.process, "Not connected to OpenCode"`: a stored handle is
\* truthy whether or not its subprocess is still running.
Connected == process # None

StoredProcessLive == process # None /\ IsAlive(The(process))

OpStarts(kind) ==
    /\ spc = "idle"
    /\ opKind' = kind
    /\ opLive' = StoredProcessLive
    /\ opAlerts' = 0 /\ opValue' = "none" /\ opSid' = None

\* The AssertionError of lines 252, 270, 283 leaves the operation.
OpNotConnected ==
    /\ spc' = "idle" /\ opResult' = "raised" /\ opHttp' = 0 /\ opReqs' = <<>>

OpRaises == spc' = "idle" /\ opResult' = "raised" /\ opValue' = "none"

OpReturns(v) == spc' = "idle" /\ opResult' = "returned" /\ opValue' = v

\* A request as client.post sends it, and the same request once answered.
Req(to, sid) == [to |-> to, sid |-> sid, answer |-> "pending"]

Answered(reqs, answer) == [reqs EXCEPT ![Len(reqs)].answer = answer]

\* lines 283-289: the POST /session of call_opencode_api_create_session
create_session_call ==
    /\ OpStarts("create_session")
    /\ opGiven' = None
    /\ IF Connected
       THEN /\ spc' = "cs_http" /\ opHttp' = 1 /\ opResult' = "none"
            /\ opReqs' = <<Req("session", None)>>
       ELSE OpNotConnected
    /\ UNCHANGED <<restVars, scope, supVars, procs, pc, conVars, disVars>>

\* lines 138-153: what call_opencode_api_create_session makes of the answer;
\* TRUE when it returns an id, FALSE when it returns None.
SessionCreated(answer) == answer = "200_id"

\* Variant: every failed creation alerts.
SessionAlerts_on_every_failure(answer) == IF answer # "200_id" THEN 1 ELSE 0

\* lines 138-145: send_alert only for a status other than 200.
SessionAlerts(answer) == IF answer = "non200" THEN 1 ELSE 0

SessionAnswers == {"200_id", "200_no_id", "non200", "transport_error"}

\* Variant: without the assert of line 291 the missing id is handed back.
create_session_response_no_assert ==
    /\ spc = "cs_http"
    /\ \E answer \in SessionAnswers, sid \in SessionIds :
          /\ opAlerts' = opAlerts + SessionAlerts(answer)
          /\ opReqs' = Answered(opReqs, answer)
          /\ IF SessionCreated(answer)
             THEN OpReturns("session_id") /\ opSid' = Some(sid)
             ELSE OpReturns("nothing") /\ UNCHANGED opSid
    /\ UNCHANGED <<restVars, scope, supVars, procs, pc, conVars, disVars, opKind, opLive, opHttp, opGiven>>

\* lines 138-153 and 291-292: assert session_id, "Failed to create session"
create_session_response ==
    /\ spc = "cs_http"
    /\ \E answer \in SessionAnswers, sid \in SessionIds :
          /\ opAlerts' = opAlerts + SessionAlerts(answer)
          /\ opReqs' = Answered(opReqs, answer)
          /\ IF SessionCreated(answer)
             THEN OpReturns("session_id") /\ opSid' = Some(sid)
             ELSE OpRaises /\ UNCHANGED opSid
    /\ UNCHANGED <<restVars, scope, supVars, procs, pc, conVars, disVars, opKind, opLive, opHttp, opGiven>>

create_session == create_session_call \/ create_session_response

\* Variant: the supplied session id is ignored; every call creates a session.
query_call_always_creates ==
    /\ OpStarts("query")
    /\ \E given \in {None} \cup {Some(g) : g \in SessionIds} :
          /\ opGiven' = given
          /\ IF Connected
             THEN /\ opHttp' = 1 /\ opResult' = "none"
                  /\ spc' = "q_cs_http"
                  /\ opReqs' = <<Req("session", None)>>
             ELSE OpNotConnected
    /\ UNCHANGED <<restVars, scope, supVars, procs, pc, conVars, disVars>>

\* lines 270-279: with a session id the message is posted at once; without
\* one self.create_session() runs first.
query_call ==
    /\ OpStarts("query")
    /\ \E given \in {None} \cup {Some(g) : g \in SessionIds} :
          /\ opGiven' = given
          /\ IF Connected
             THEN /\ opHttp' = 1 /\ opResult' = "none"
                  /\ IF given # None
                     THEN /\ spc' = "q_post_http"
                          /\ opReqs' = <<Req("message", given)>>
                     ELSE /\ spc' = "q_cs_http"
                          /\ opReqs' = <<Req("session", None)>>
             ELSE OpNotConnected
    /\ UNCHANGED <<restVars, scope, supVars, procs, pc, conVars, disVars>>

\* Variant: the message is posted to some session, not the one just created.
query_session_response_any_session ==
    /\ spc = "q_cs_http"
    /\ \E answer \in SessionAnswers, sid \in SessionIds, other \in SessionIds :
          /\ opAlerts' = opAlerts + SessionAlerts(answer)
          /\ IF SessionCreated(answer)
             THEN /\ spc' = "q_post_http" /\ opHttp' = opHttp + 1
                  /\ opSid' = Some(sid)
                  /\ opReqs' = Append(Answered(opReqs, answer),
                                      Req("message", Some(other)))
                  /\ UNCHANGED <<opResult, opValue>>
             ELSE /\ OpRaises /\ opReqs' = Answered(opReqs, answer)
                  /\ UNCHANGED <<opHttp, opSid>>
    /\ UNCHANGED <<restVars, scope, supVars, procs, pc, conVars, disVars, opKind, opLive, opGiven>>

\* line 272: the implicit create_session() answers; on success the message
\* is posted to the new session (lines 56-62), otherwise the AssertionError
\* of line 291 leaves query().
query_session_response ==
    /\ spc = "q_cs_http"
    /\ \E answer \in SessionAnswers, sid \in SessionIds :
          /\ opAlerts' = opAlerts + SessionAlerts(answer)
          /\ IF SessionCreated(answer)
             THEN /\ spc' = "q_post_http" /\ opHttp' = opHttp + 1
                  /\ opSid' = Some(sid)
                  /\ opReqs' = Append(Answered(opReqs, answer),
                                      Req("message", Some(sid)))
                  /\ UNCHANGED <<opResult, opValue>>
             ELSE /\ OpRaises /\ opReqs' = Answered(opReqs, answer)
                  /\ UNCHANGED <<opHttp, opSid>>
    /\ UNCHANGED <<restVars, scope, supVars, procs, pc, conVars, disVars, opKind, opLive, opGiven>>

\* Variant: a status other than 200 is raised instead of absorbed.
query_post_response_raises_on_error ==
    /\ spc = "q_post_http"
    /\ \E answer \in {"200_text", "200_no_text", "non200", "transport_error"} :
          /\ opReqs' = Answered(opReqs, answer)
          /\ CASE answer = "200_text" ->
                    OpReturns("text") /\ UNCHANGED opAlerts
               [] answer = "200_no_text" ->
                    OpReturns("empty") /\ opAlerts' = opAlerts + 1
               [] OTHER ->
                    OpRaises /\ opAlerts' = opAlerts + 1
    /\ UNCHANGED <<restVars, scope, supVars, procs, pc, conVars, disVars, opKind, opLive, opHttp,
                   opGiven, opSid>>

\* Variant: the post sits in a try block like the one of compact; a
\* transport error is absorbed into the empty reply.
query_post_response_absorbs_transport_error ==
    /\ spc = "q_post_http"
    /\ \E answer \in {"200_text", "200_no_text", "non200", "transport_error"} :
          /\ opReqs' = Answered(opReqs, answer)
          /\ CASE answer = "200_text" ->
                    OpReturns("text") /\ UNCHANGED opAlerts
               [] answer \in {"200_no_text", "non200"} ->
                    OpReturns("empty") /\ opAlerts' = opAlerts + 1
               [] OTHER ->
                    OpReturns("empty") /\ UNCHANGED opAlerts
    /\ UNCHANGED <<restVars, scope, supVars, procs, pc, conVars, disVars, opKind, opLive, opHttp,
                   opGiven, opSid>>

\* lines 64-93 and 280: the answer to the message post.  The post is not
\* inside a try block, so a transport error leaves query().
query_post_response ==
    /\ spc = "q_post_http"
    /\ \E answer \in {"200_text", "200_no_text", "non200", "transport_error"} :
          /\ opReqs' = Answered(opReqs, answer)
          /\ CASE answer = "200_text" ->
                    OpReturns("text") /\ UNCHANGED opAlerts
               [] answer \in {"200_no_text", "non200"} ->
                    OpReturns("empty") /\ opAlerts' = opAlerts + 1
               [] OTHER ->
                    OpRaises /\ UNCHANGED opAlerts
    /\ UNCHANGED <<restVars, scope, supVars, procs, pc, conVars, disVars, opKind, opLive, opHttp,
                   opGiven, opSid>>

query == query_call \/ query_session_response \/ query_post_response

\* lines 252-259: the POST summarize of call_opencode_api_compact
compact_call ==
    /\ OpStarts("compact")
    /\ \E given \in SessionIds :
          /\ opGiven' = Some(given)
          /\ IF Connected
             THEN /\ spc' = "k_http" /\ opHttp' = 1 /\ opResult' = "none"
                  /\ opReqs' = <<Req("summarize", Some(given))>>
             ELSE OpNotConnected
    /\ UNCHANGED <<restVars, scope, supVars, procs, pc, conVars, disVars>>

\* Variant: the try block of lines 103-124 is missing.
compact_response_no_try ==
    /\ spc = "k_http"
    /\ \E answer \in {"200", "non200", "transport_error"} :
          /\ opReqs' = Answered(opReqs, answer)
          /\ CASE answer = "200" -> OpReturns("true") /\ UNCHANGED opAlerts
               [] answer = "non200" -> OpReturns("false") /\ opAlerts' = opAlerts + 1
               [] OTHER -> OpRaises /\ UNCHANGED opAlerts
    /\ UNCHANGED <<restVars, scope, supVars, procs, pc, conVars, disVars, opKind, opLive, opHttp,
                   opGiven, opSid>>

\* lines 111-124
compact_response ==
    /\ spc = "k_http"
    /\ \E answer \in {"200", "non200", "transport_error"} :
          /\ opReqs' = Answered(opReqs, answer)
          /\ CASE answer = "200" -> OpReturns("true") /\ UNCHANGED opAlerts
               [] answer = "non200" -> OpReturns("false") /\ opAlerts' = opAlerts + 1
               [] OTHER -> OpReturns("false") /\ UNCHANGED opAlerts
    /\ UNCHANGED <<restVars, scope, supVars, procs, pc, conVars, disVars, opKind, opLive, opHttp,
                   opGiven, opSid>>

compact == compact_call \/ compact_response

(***************************************************************************)
(* `async with OpenCodeSDKClient(...)`, lines 294-299.                      *)
(***************************************************************************)
\* lines 294-295: __aenter__ awaits self.connect()
aenter ==
    /\ scope.at \in {"none", "done"}
    /\ ConnectStarts
    /\ scope' = [at |-> "entering", block |-> "none", result |-> "none"]

\* line 296: connect() returned and __aenter__ returns self, so the block
\* starts; or connect() raised, the exception leaves the statement and
\* __aexit__ is not called.
aenter_return ==
    /\ scope.at = "entering" /\ pc = "idle" /\ cResult # "none"
    /\ scope' = IF cResult = "ok"
                THEN [scope EXCEPT !.at = "body"]
                ELSE [scope EXCEPT !.at = "done", !.result = "raised_by_connect"]
    /\ UNCHANGED <<restVars, supVars, procs, pc, conVars, disVars, opVars>>

\* lines 298-299: the block ends, normally or by raising, and __aexit__
\* awaits self.disconnect().
aexit ==
    /\ scope.at = "body"
    /\ DisconnectStarts
    /\ \E how \in {"normal", "raised"} :
          scope' = [scope EXCEPT !.at = "exiting", !.block = how]

\* Variant: __aexit__ returns a true value.
aexit_return_suppresses ==
    /\ scope.at = "exiting" /\ pc = "idle" /\ dResult # "none"
    /\ scope' = [scope EXCEPT !.at = "done",
                              !.result = IF dResult = "raised"
                                         THEN "raised_by_disconnect"
                                         ELSE "normal"]
    /\ UNCHANGED <<restVars, supVars, procs, pc, conVars, disVars, opVars>>

\* line 299: disconnect() is over.  An exception it raised leaves the
\* statement; otherwise __aexit__ returns None, which suppresses nothing, so
\* an exception of the block goes on to the caller.
aexit_return ==
    /\ scope.at = "exiting" /\ pc = "idle" /\ dResult # "none"
    /\ scope' = [scope EXCEPT !.at = "done",
                              !.result = IF dResult = "raised"
                                         THEN "raised_by_disconnect"
                                         ELSE IF scope.block = "raised"
                                         THEN "raised_by_block"
                                         ELSE "normal"]
    /\ UNCHANGED <<restVars, supVars, procs, pc, conVars, disVars, opVars>>

async_with == aenter \/ aenter_return \/ aexit \/ aexit_return

Next ==
    \/ connect
    \/ disconnect
    \/ async_with
    \/ create_session
    \/ query
    \/ compact
    \/ ProcessExit

Spec == Init /\ [][Next]_vars

\* connect() on its own, with the subprocesses free to exit, and with the
\* event loop resuming the probe whenever it can take a step: each GET ends
\* within its timeout and asyncio.sleep returns.
ProbeNext == connect \/ ProcessExit
SpecProbeFair ==
    Init /\ [][ProbeNext]_vars /\ WF_vars(wait_until_port_is_ready_to_connect)

(***************************************************************************)
(* get_models_fn(), lines 301-323.                                         *)
(***************************************************************************)
\* Variant: the name is taken from the id.
Reshape_name_from_id(e) == [id |-> The(e.id), name |-> The(e.id)]

\* lines 318-321: {"id": e['id'], "name": e['name']}
Reshape(e) == [id |-> The(e.id), name |-> The(e.name)]

\* e['id'] or e['name'] raises KeyError
Unreadable(e) == e.id = None \/ e.name = None

\* The whole function.  Only the GET is inside the try (lines 303-310); a
\* status other than 200 returns [] (lines 312-314); response.json(),
\* response_json['data'] and the two subscripts of each entry are not guarded.
GetModels(resp) ==
    IF resp.status = "unreachable" THEN Returned(<<>>)
    ELSE IF resp.status # "200" THEN Returned(<<>>)
    ELSE IF resp.body = "not_json" THEN Raised("JSONDecodeError")
    ELSE IF resp.body = "no_data" THEN Raised("KeyError")
    ELSE IF \E i \in 1..Len(resp.data) : Unreadable(resp.data[i])
         THEN Raised("KeyError")
    ELSE Returned([i \in 1..Len(resp.data) |-> Reshape(resp.data[i])])

(***************************************************************************)
(* update_config_task(repeat_interval), lines 537-579.                     *)
(***************************************************************************)
\* lines 555-560: {e['id']: {"name": e['name']} for e in models}; a later
\* entry with the same id replaces an earlier one.
ModelMap(ms) ==
    [k \in {ms[i].id : i \in 1..Len(ms)} |->
        ms[CHOOSE i \in 1..Len(ms) :
              ms[i].id = k /\ \A j \in (i+1)..Len(ms) : ms[j].id # k].name]

\* lines 545-567: the document; the agent, permission, tool and mcp maps are
\* module constants and are left out.
BuildConfig(ms) == [models |-> ModelMap(ms), autoupdate |-> FALSE]

\* One more, counted up to MaxCycles.
Counted(n) == IF n < MaxCycles THEN n + 1 ELSE n

\* A new cycle of the `while True` loop starts.
CycleStarts ==
    /\ gwResp' = NoResponse /\ fetched' = Returned(<<>>) /\ config' = None
    /\ syncErr' = "none" /\ syncWrote' = FALSE /\ truncated' = NoFile
    /\ cycles' = Counted(cycles)

\* lines 537-539: the call; os.makedirs is outside the try.
update_config_task_call ==
    /\ syncPc = "idle"
    /\ \E r \in (0 - MaxInterval)..MaxInterval : repeat_interval' = r
    /\ \/ syncPc' = "fetch" /\ cycles' = Counted(cycles)
       \/ syncPc' = "raised" /\ UNCHANGED cycles  \* os.makedirs raises OSError
    /\ UNCHANGED <<notSync, gwResp, fetched, config, file, syncErr,
                   syncWrote, truncated, writes>>

\* Variant: the try of line 542 is missing, the exception leaves the task.
get_models_fn_no_try ==
    /\ syncPc = "fetch"
    /\ \E resp \in Responses :
          /\ gwResp' = resp
          /\ fetched' = GetModels(resp)
          /\ IF GetModels(resp).raised = "none"
             THEN syncPc' = "build" /\ UNCHANGED syncErr
             ELSE syncPc' = "raised" /\ syncErr' = "fetch"
    /\ UNCHANGED <<notSync, repeat_interval, config, file, syncWrote,
                   truncated, cycles, writes>>

\* line 543: models = await get_models_fn(); an exception goes to line 572.
get_models_fn ==
    /\ syncPc = "fetch"
    /\ \E resp \in Responses :
          /\ gwResp' = resp
          /\ fetched' = GetModels(resp)
          /\ IF GetModels(resp).raised = "none"
             THEN syncPc' = "build" /\ UNCHANGED syncErr
             ELSE syncPc' = "tail" /\ syncErr' = "fetch"
    /\ UNCHANGED <<notSync, repeat_interval, config, file, syncWrote,
                   truncated, cycles, writes>>

\* lines 545-567
build_config ==
    /\ syncPc = "build"
    /\ config' = Some(BuildConfig(fetched.value))
    /\ syncPc' = "open"
    /\ UNCHANGED <<notSync, repeat_interval, gwResp, fetched, file,
                   syncErr, syncWrote, truncated, cycles, writes>>

\* line 569: open(config_path, "w") truncates the file, or raises OSError.
open_config ==
    /\ syncPc = "open"
    /\ \/ /\ file' = [state |-> "empty", doc |-> None]
          /\ truncated' = file
          /\ syncPc' = "dump"
          /\ UNCHANGED syncErr
       \/ /\ syncPc' = "tail" /\ syncErr' = "open"
          /\ UNCHANGED <<file, truncated>>
    /\ UNCHANGED <<notSync, repeat_interval, gwResp, fetched, config,
                   syncWrote, cycles, writes>>

\* Variant: the models of the document that was there are merged in.
json_dump_merges ==
    /\ syncPc = "dump"
    /\ \/ /\ LET new == The(config).models
                 old == IF truncated.doc = None THEN new
                        ELSE The(truncated.doc).models
             IN  file' = [state |-> "complete",
                          doc |-> Some([The(config) EXCEPT !.models =
                                     [k \in DOMAIN old \cup DOMAIN new |->
                                        IF k \in DOMAIN new THEN new[k] ELSE old[k]]])]
          /\ syncWrote' = TRUE /\ writes' = Counted(writes)
          /\ UNCHANGED syncErr
       \/ /\ \E st \in {"empty", "partial"} : file' = [state |-> st, doc |-> None]
          /\ syncErr' = "dump"
          /\ UNCHANGED <<syncWrote, writes>>
    /\ syncPc' = "tail"
    /\ UNCHANGED <<notSync, repeat_interval, gwResp, fetched, config,
                   truncated, cycles>>

\* line 570: json.dump(config, f) and the close of the `with`; a failed write
\* leaves what reached the file so far.
json_dump ==
    /\ syncPc = "dump"
    /\ \/ /\ file' = [state |-> "complete", doc |-> config]
          /\ syncWrote' = TRUE /\ writes' = Counted(writes)
          /\ UNCHANGED syncErr
       \/ /\ \E st \in {"empty", "partial"} : file' = [state |-> st, doc |-> None]
          /\ syncErr' = "dump"
          /\ UNCHANGED <<syncWrote, writes>>
    /\ syncPc' = "tail"
    /\ UNCHANGED <<notSync, repeat_interval, gwResp, fetched, config,
                   truncated, cycles>>

\* lines 575-577: if repeat_interval <= 0: break
repeat_test ==
    /\ syncPc = "tail"
    /\ syncPc' = IF repeat_interval <= 0 THEN "returned" ELSE "sleep"
    /\ UNCHANGED <<notSync, repeat_interval, gwResp, fetched, config,
                   file, syncErr, syncWrote, truncated, cycles, writes>>

\* line 579: await asyncio.sleep(repeat_interval), then the next cycle
sync_sleep ==
    /\ syncPc = "sleep"
    /\ syncPc' = "fetch"
    /\ CycleStarts
    /\ UNCHANGED <<notSync, repeat_interval, file, writes>>

update_config_task ==
    \/ update_config_task_call
    \/ get_models_fn
    \/ build_config
    \/ open_config
    \/ json_dump
    \/ repeat_test
    \/ sync_sleep

SyncNext == update_config_task

\* The configuration sync loop on its own.
SpecSync == Init /\ [][SyncNext]_vars

\* The same, with the event loop running the task whenever it can take a
\* step: the GET, the file operations and asyncio.sleep all come back.
SpecSyncFair == Init /\ [][SyncNext]_vars /\ WF_vars(SyncNext)

(***************************************************************************)
(* The reply text of a query: the loop of call_opencode_api_query, lines   *)
(* 64-70 and 93, and the post-processing of query(), lines 270-280.        *)
(***************************************************************************)
\* str.strip(): blanks are removed from both ends.
Strip(t) ==
    LET solid == {i \in 1..Len(t) : t[i] # " "}
    IN  IF solid = {} THEN <<>>
        ELSE SubSeq(t, CHOOSE i \in solid : \A j \in solid : i <= j,
                       CHOOSE i \in solid : \A j \in solid : j <= i)

\* strip_markers(res, (("think", False), )): every think block goes, markers
\* and content.
RECURSIVE strip_markers(_)
strip_markers(t) ==
    IF t = <<>> THEN <<>>
    ELSE IF Head(t) = "<think>" /\ \E j \in 2..Len(t) : t[j] = "</think>"
         THEN LET close == CHOOSE j \in 2..Len(t) :
                              /\ t[j] = "</think>"
                              /\ \A k \in 2..(j-1) : t[k] # "</think>"
              IN  strip_markers(SubSeq(t, close + 1, Len(t)))
         ELSE <<Head(t)>> \o strip_markers(Tail(t))

\* item.get("text"), with '' standing for a missing or null text
TextOf(item) == IF item.text = None THEN <<>> ELSE The(item.text)

\* The response arrives with status 200: parts = response_json.get("parts", [])
PartsInit ==
    /\ SupervisorIdle /\ SyncIdle /\ TwoIdle /\ ToolsIdle /\ RaceIdle
    /\ parts \in PartLists
    /\ idx = 0 /\ response_text = <<>> /\ reply = None

\* Variant: every text-typed part is taken, empty or not.
scan_item_any_text ==
    /\ reply = None /\ idx < Len(parts)
    /\ LET item == parts[idx + 1]
       IN  response_text' = IF item.type = "text"
                            THEN TextOf(item) ELSE response_text
    /\ idx' = idx + 1
    /\ UNCHANGED <<notParts, parts, reply>>

\* lines 68-70: one turn of `for item in parts`
scan_item ==
    /\ reply = None /\ idx < Len(parts)
    /\ LET item == parts[idx + 1]
       IN  response_text' = IF item.type = "text" /\ TextOf(item) # <<>>
                            THEN TextOf(item) ELSE response_text
    /\ idx' = idx + 1
    /\ UNCHANGED <<notParts, parts, reply>>

\* line 93 returns response_text.strip(); line 280 returns
\* strip_markers(res, ...).strip()
query_return ==
    /\ reply = None /\ idx = Len(parts)
    /\ reply' = Some(Strip(strip_markers(Strip(response_text))))
    /\ UNCHANGED <<notParts, parts, idx, response_text>>

PartsNext == scan_item \/ query_return

\* The reply text of a query on its own, for every list of parts.
SpecParts == PartsInit /\ [][PartsNext]_vars

(***************************************************************************)
(* Properties.                                                             *)
(***************************************************************************)
ConnectDone    == pc = "idle" /\ cResult # "none"
DisconnectDone == pc = "idle" /\ dResult # "none"
Before(s, a, b) == Pos(s, a) > 0 /\ Pos(s, a) < Pos(s, b)

\* C1: whatever connect() and disconnect() calls were made on the instance,
\* at most one subprocess it spawned is alive and at most one port is held.
C1_AtMostOneLive ==
    Cardinality(LivePids) <= 1 /\ Cardinality(LivePorts) <= 1

\* C2: a session operation called while the supervisor's subprocess is not
\* live (no stored handle, or a stored handle whose subprocess has exited)
\* fails at once and issues no HTTP request.
C2_FailFastWhenNotLive ==
    (opKind # "none" /\ ~opLive) => (opResult = "raised" /\ opHttp = 0)

\* C3: once the probe has seen that the subprocess exited it stops polling
\* (no further sleep, no wait for the timeout), and the failure connect()
\* raises names the exit code.
C3_ExitAbortsProbe ==
    "exit_seen" \in Range(cLog) =>
        /\ pc \notin {"p_sleep", "p_loop", "c_alert"}
        /\ (cResult = "raised" => cCause = "exit_code")

\* C4: when the probe's time budget runs out without a 200 answer, connect()
\* raises, it has called kill on the subprocess it spawned, and that
\* subprocess is not alive when connect() hands control back.
C4_TimeoutKills ==
    ("probe_failed" \in Range(cLog) /\ pc = "idle") =>
        /\ cResult = "raised"
        /\ Before(cLog, "probe_failed", "kill")
        /\ cProc # None /\ ~IsAlive(The(cProc))

C4_Witness ==
    /\ ConnectDone /\ cResult = "raised"
    /\ "probe_failed" \in Range(cLog)
    /\ "get" \in Range(cLog) /\ "exit_seen" \notin Range(cLog)

\* C5: when disconnect() directly follows a successful connect(), it ends
\* with the connected subprocess not alive and with neither a handle nor a
\* port stored.
C5_ConnectThenDisconnect ==
    (DisconnectDone /\ dAfterOk) =>
        /\ dPid # None /\ ~IsAlive(The(dPid))
        /\ process = None /\ port = None

C5_Witness ==
    DisconnectDone /\ dAfterOk /\ dResult = "returned" /\ "kill" \in Range(dLog)

\* C6: in every connect() the port is allocated before the spawn and the
\* spawn precedes the first probe request; while the probe runs, the
\* subprocess it watches was started on the allocated port.
C6_PortSpawnProbeOrder ==
    /\ "spawn" \in Range(cLog) => Before(cLog, "port", "spawn")
    /\ "get" \in Range(cLog) => Before(cLog, "spawn", "get")
    /\ pc \in {"p_loop", "p_sleep"} =>
          /\ cProc # None /\ cPort # None
          /\ IsAlive(The(cProc)) => procs[The(cProc)].port = cPort

C6_Witness ==
    pc = "p_sleep" /\ "get" \in Range(cLog) /\ IsAlive(The(cProc))

\* C7: every failure of connect() (port-bind failure, executable not found,
\* spawn failure, exit before ready, readiness timeout) has sent an alert by
\* the time it is raised.
C7_AlertOnEveryFailure ==
    cResult = "raised" => "alert" \in Range(cLog)

\* C8: when connect() fails on an instance that stored nothing before the
\* call, neither a handle nor a port is stored afterwards, also when the kill
\* itself failed, and the failure reaches the caller.
C8_FailedConnectStoresNothing ==
    /\ (ConnectDone /\ cFresh /\ cResult = "raised") =>
            (process = None /\ port = None)
    /\ (pc = "idle" /\ cCause # "none") => cResult = "raised"

C8_Witness ==
    /\ ConnectDone /\ cFresh /\ cResult = "raised"
    /\ Before(cLog, "exit_seen", "kill")

\* C9: disconnect() never raises, whatever the state of the subprocess.
C9_DisconnectNeverRaises ==
    dResult # "raised"

\* C10: disconnect() calls kill only after terminate was sent and the wait
\* timed out; a subprocess that exited within the wait is not killed; and a
\* disconnect() that found a stored handle ends with handle and port cleared.
C10_GracefulThenForced ==
    /\ "kill" \in Range(dLog) =>
          Before(dLog, "terminate", "timeout") /\ Before(dLog, "timeout", "kill")
    /\ "exited" \in Range(dLog) => "kill" \notin Range(dLog)
    /\ (DisconnectDone /\ dPid # None) => (process = None /\ port = None)

C10_Witness ==
    DisconnectDone /\ dLog = <<"terminate", "timeout", "kill">>

\* C11: in an `async with` block connect() runs on entry; once entry
\* succeeded, disconnect() has run by the time the statement is left, however
\* the block ended; and a block that raised leaves the statement with an
\* exception, never normally.
C11_ScopedLifetime ==
    /\ scope.at = "body" => cResult = "ok"
    /\ scope.at = "done" =>
          /\ (scope.block = "none") = (scope.result = "raised_by_connect")
          /\ scope.block # "none" => (DisconnectDone /\ process = None)
          /\ scope.block = "raised" => scope.result # "normal"

C11_Witness ==
    /\ scope.at = "done" /\ scope.block = "raised"
    /\ scope.result = "raised_by_block" /\ "terminate" \in Range(dLog)

ProbePcs == {"p_loop", "p_sleep"}
OpDone(kind) == opKind = kind /\ spc = "idle" /\ opResult # "none"
LastReq == opReqs[Len(opReqs)]

\* C12: while connect() waits for readiness the supervisor does not store
\* the handle of the subprocess being probed, and no session operation
\* called during that wait gets as far as issuing a request.
C12_StoredOnlyWhenReady ==
    [][ /\ pc' \in ProbePcs => (process' \cap cProc' = {})
        /\ ~(pc \in ProbePcs /\ spc = "idle" /\ spc' # "idle") ]_vars

\* C13: a query() without session id first sends one session-creation
\* request and nothing else; when that creation returns an id, exactly one
\* message post follows it, addressed to that id.
C13_OneCreateThenOnePost ==
    (opKind = "query" /\ opGiven = None /\ opReqs # <<>>) =>
        /\ opReqs[1].to = "session"
        /\ Len(opReqs) <= 2
        /\ (opReqs[1].answer = "200_id") = (Len(opReqs) = 2)
        /\ Len(opReqs) = 2 =>
              /\ opReqs[2].to = "message"
              /\ opSid # None /\ opReqs[2].sid = opSid
        /\ opResult = "returned" => Len(opReqs) = 2

C13_Witness ==
    /\ OpDone("query") /\ opGiven = None /\ opResult = "returned"
    /\ Len(opReqs) = 2 /\ opReqs[2].sid = opSid

\* C15: when the message post is answered with a status other than 200, or
\* with 200 and no text part, query() has sent exactly one alert, returns the
\* empty string and does not raise.
C15_EmptyReplyOnError ==
    (OpDone("query") /\ opReqs # <<>> /\ LastReq.to = "message"
        /\ LastReq.answer \in {"non200", "200_no_text"}) =>
        (opAlerts = 1 /\ opResult = "returned" /\ opValue = "empty")

C15_Witness ==
    /\ OpDone("query") /\ opReqs # <<>> /\ LastReq.to = "message"
    /\ LastReq.answer = "non200" /\ opValue = "empty" /\ opAlerts = 1

\* C16 as stated: in any supervisor state compact() returns, with true
\* exactly when the summarize endpoint answered 200.
C16_CompactNeverRaises ==
    OpDone("compact") =>
        /\ opResult = "returned"
        /\ opReqs # <<>>
        /\ (opValue = "true") = (LastReq.answer = "200")

\* C16 amended: with a stored handle compact() returns true exactly when the
\* summarize endpoint answered 200 and false for every other outcome of the
\* request, without raising; with no stored handle it raises before any
\* request.
C16_CompactWhenConnected ==
    OpDone("compact") =>
        IF opReqs # <<>>
        THEN /\ opResult = "returned"
             /\ opValue \in {"true", "false"}
             /\ (opValue = "true") = (LastReq.answer = "200")
        ELSE opResult = "raised" /\ opHttp = 0

C16_Witness ==
    /\ OpDone("compact") /\ opReqs # <<>>
    /\ LastReq.answer = "transport_error" /\ opValue = "false"

\* C17: create_session() yields a session id exactly for a 200 answer that
\* carries an id; a status other than 200, a transport failure and a 200
\* answer without id yield none; an alert is sent exactly for the status
\* other than 200.
C17_SessionOnlyOn200WithId ==
    (OpDone("create_session") /\ opReqs # <<>>) =>
        /\ (opResult = "returned" /\ opSid # None) = (LastReq.answer = "200_id")
        /\ LastReq.answer # "200_id" => (opResult = "raised" /\ opSid = None)
        /\ opAlerts = (IF LastReq.answer = "non200" THEN 1 ELSE 0)

C17_Witness ==
    /\ OpDone("create_session") /\ opReqs # <<>>
    /\ LastReq.answer = "transport_error" /\ opAlerts = 0 /\ opSid = None

BoundPorts == UNION {child[i].port : i \in {j \in Sups : child[j].state = "serving"}}

ChildAlive(i) == child[i].state \in {"starting", "serving"}

\* lines 160-163: bind(('', 0)) gets a port nobody is bound to, and the
\* socket is closed again when the `with` ends.
instance_pick_port(i) ==
    /\ iPc[i] = "idle"
    /\ \E p \in Ports \ BoundPorts : iLocal' = [iLocal EXCEPT ![i] = Some(p)]
    /\ iPc' = [iPc EXCEPT ![i] = "spawn"]
    /\ UNCHANGED <<notTwo, iPort, iProcess, child>>

\* lines 194-214: the subprocess is started with --port={port} and stored,
\* or one of the steps before it raises.
instance_spawn(i) ==
    /\ iPc[i] = "spawn"
    /\ \/ /\ child' = [child EXCEPT ![i] = [state |-> "starting", port |-> iLocal[i]]]
          /\ iProcess' = [iProcess EXCEPT ![i] = Some(i)]
          /\ iPort' = [iPort EXCEPT ![i] = iLocal[i]]
          /\ iPc' = [iPc EXCEPT ![i] = "probe"]
          /\ UNCHANGED iLocal
       \/ /\ iPc' = [iPc EXCEPT ![i] = "idle"]
          /\ iLocal' = [iLocal EXCEPT ![i] = None]
          /\ UNCHANGED <<iPort, iProcess, child>>
    /\ UNCHANGED notTwo

\* The subprocess binds its port, or exits because the port is taken.
child_bind(i) ==
    /\ child[i].state = "starting"
    /\ child' = [child EXCEPT ![i].state =
                    IF child[i].port \subseteq BoundPorts THEN "exited" ELSE "serving"]
    /\ UNCHANGED <<notTwo, iPc, iLocal, iPort, iProcess>>

\* A subprocess exits on its own.
child_exit(i) ==
    /\ ChildAlive(i)
    /\ child' = [child EXCEPT ![i].state = "exited"]
    /\ UNCHANGED <<notTwo, iPc, iLocal, iPort, iProcess>>

\* lines 165-179 and 216-230: GET http://localhost:{port}/app is answered by
\* whoever listens on the port; without an answer until the timeout the
\* subprocess is killed and the stored state cleared.
instance_probe(i) ==
    /\ iPc[i] = "probe"
    /\ IF iPort[i] \subseteq BoundPorts
       THEN /\ iPc' = [iPc EXCEPT ![i] = "connected"]
            /\ UNCHANGED <<iPort, iProcess, child>>
       ELSE /\ iPc' = [iPc EXCEPT ![i] = "idle"]
            /\ child' = [child EXCEPT ![i].state = "exited"]
            /\ iProcess' = [iProcess EXCEPT ![i] = None]
            /\ iPort' = [iPort EXCEPT ![i] = None]
    /\ iLocal' = [iLocal EXCEPT ![i] = None]
    /\ UNCHANGED notTwo

\* lines 233-244: a live subprocess is terminated; terminate() on one that
\* is gone raises; either way the finally block clears the stored state.
instance_disconnect(i) ==
    /\ iPc[i] = "connected"
    /\ iPc' = [iPc EXCEPT ![i] = "idle"]
    /\ child' = IF ChildAlive(i) THEN [child EXCEPT ![i].state = "exited"] ELSE child
    /\ iProcess' = [iProcess EXCEPT ![i] = None]
    /\ iPort' = [iPort EXCEPT ![i] = None]
    /\ UNCHANGED <<notTwo, iLocal>>

TwoNext ==
    \E i \in Sups :
       \/ instance_pick_port(i)
       \/ instance_spawn(i)
       \/ child_bind(i)
       \/ child_exit(i)
       \/ instance_probe(i)
       \/ instance_disconnect(i)

\* Two supervisors connecting and disconnecting in any interleaving.
SpecTwo == Init /\ [][TwoNext]_vars

(***************************************************************************)
(* The Rentcast tools of app/task_executor/mcps/rentcast/main.py: the      *)
(* arguments of a call, and what the API may answer.                       *)
(***************************************************************************)
Tools == {"search_properties", "get_random_properties", "analyze_market",
          "get_property_value", "get_rent_estimates", "get_sale_listings",
          "get_rental_listings", "get_property_details"}
LocatedTools  == {"search_properties", "get_sale_listings", "get_rental_listings"}
EstimateTools == {"get_property_value", "get_rent_estimates"}
FilteredTools == {"search_properties", "get_random_properties",
                  "get_sale_listings", "get_rental_listings"}

\* The key under which each tool looks for its items.
ExpectedKey(tool) ==
    CASE tool \in {"search_properties", "get_random_properties"} -> "properties"
      [] tool = "analyze_market" -> "markets"
      [] tool \in EstimateTools -> "avm"
      [] tool \in {"get_sale_listings", "get_rental_listings"} -> "listings"
      [] tool = "get_property_details" -> "property"

UnableMessage(tool) ==
    CASE tool = "search_properties" -> "Unable to fetch properties or no properties found."
      [] tool = "get_random_properties" -> "Unable to fetch random properties or no properties found."
      [] tool = "analyze_market" -> "Unable to fetch market data or no market data found."
      [] tool = "get_property_value" -> "Unable to fetch property value or no value data found."
      [] tool = "get_rent_estimates" -> "Unable to fetch rent estimates or no rent data found."
      [] tool = "get_sale_listings" -> "Unable to fetch sale listings or no listings found."
      [] tool = "get_rental_listings" -> "Unable to fetch rental listings or no listings found."
      [] tool = "get_property_details" -> "Unable to fetch property details or no property found."

NoneFoundMessage(tool) ==
    CASE tool = "search_properties" -> "No properties found matching the criteria."
      [] tool = "get_random_properties" -> "No random properties found matching the criteria."
      [] tool = "analyze_market" -> "No market data found for the specified location."
      [] tool = "get_property_value" -> "No property value data found for the specified property."
      [] tool = "get_rent_estimates" -> "No rent estimate data found for the specified property."
      [] tool = "get_sale_listings" -> "No sale listings found matching the criteria."
      [] tool = "get_rental_listings" -> "No rental listings found matching the criteria."
      [] tool = "get_property_details" -> "No property details found for the specified property ID."

Opt(S)    == {None} \cup {Some(x) : x \in S}
Cities    == Opt({"", "Austin"})
States    == Opt({"TX"})
ZipCodes  == Opt({"78701"})
Limits    == Opt({0 - 1, 0, MinLimit, MaxLimit, MaxLimit + 1})
RoomCounts == Opt({0 - 1, 0, 3})
Idents    == Opt({"id1"})
Addresses == Opt({"123 Main St"})
Coordinates == Opt({0, 30})

\* Every parameter left at its default.
Defaults ==
    [tool |-> "none", city |-> None, state |-> None, zip_code |-> None,
     limit |-> None, bedrooms |-> None, bathrooms |-> None,
     property_id |-> None, address |-> None, latitude |-> None,
     longitude |-> None, active_only |-> TRUE]

\* The calls of each tool; the parameters not varied keep their default.
Calls ==
    {[Defaults EXCEPT !.tool = "search_properties", !.city = c, !.state = st,
                      !.limit = l, !.bedrooms = bd, !.bathrooms = bt,
                      !.active_only = a] :
        c \in Cities, st \in States, l \in Limits, bd \in RoomCounts,
        bt \in Opt({0 - 1, 2}), a \in BOOLEAN}
    \cup {[Defaults EXCEPT !.tool = t, !.city = c, !.zip_code = z, !.limit = l,
                           !.active_only = a] :
        t \in {"get_sale_listings", "get_rental_listings", "get_random_properties"},
        c \in Cities, z \in ZipCodes, l \in Limits, a \in BOOLEAN}
    \cup {[Defaults EXCEPT !.tool = "analyze_market", !.zip_code = z, !.city = c] :
        z \in ZipCodes, c \in Cities}
    \cup {[Defaults EXCEPT !.tool = t, !.property_id = p, !.address = ad,
                           !.latitude = la, !.longitude = lo, !.active_only = a] :
        t \in EstimateTools, p \in Idents, ad \in Addresses,
        la \in Coordinates, lo \in Coordinates, a \in BOOLEAN}
    \cup {[Defaults EXCEPT !.tool = "get_property_details", !.property_id = Some("id1")]}

\* One item of a response: a property, listing or market object.
Items     == [id : {"p1", "p2"}, yearBuilt : Opt({1950, 1990})]
ItemLists == SeqsUpTo(Items, MaxItems)

\* What response.json() can give: null, a list, or a dict that is empty,
\* lacks the key the tool expects, or holds under it a list, one object or
\* null.  An Error dict is what make_request returns for a failure.
JsonValue(shape, key, items) == [shape |-> shape, key |-> key, items |-> items]
ErrorResult == JsonValue("dict", "Error", <<>>)
Bodies ==
    {JsonValue("null", "n/a", <<>>)}
    \cup {JsonValue("list", "n/a", xs) : xs \in ItemLists}
    \cup {JsonValue("dict", k, <<>>) : k \in {"empty", "absent", "null"}}
    \cup {JsonValue("dict", "list", xs) : xs \in ItemLists}
    \cup {JsonValue("dict", "object", <<x>>) : x \in Items}

\* How the GET of make_request can end.
HttpOutcomes ==
    {[kind |-> k, body |-> ErrorResult] :
        k \in {"http_status", "timeout", "request_error", "invalid_json", "other"}}
    \cup {[kind |-> "ok", body |-> b] : b \in Bodies}

\* Python truth of an optional string / number.
TruthyStr(o) == o # None /\ The(o) # ""
TruthyNum(o) == o # None /\ The(o) # 0

(***************************************************************************)
(* The helpers of lines 58-165 and the tool bodies of lines 186-692.       *)
(***************************************************************************)
\* Variant: a record without a year, or with one before 1974, is inactive.
is_property_active_by_year(property_data) ==
    LET year_built == IF property_data.yearBuilt = None THEN 0
                      ELSE The(property_data.yearBuilt)
    IN  IF year_built # 0 /\ year_built >= ActiveSince THEN TRUE ELSE FALSE

\* lines 60-80: both branches return True
is_property_active(property_data) ==
    LET year_built == IF property_data.yearBuilt = None THEN 0
                      ELSE The(property_data.yearBuilt)
    IN  IF year_built # 0 /\ year_built >= ActiveSince THEN TRUE ELSE TRUE

\* `not data`
Falsy(d) ==
    \/ d.shape = "null"
    \/ d.shape = "list" /\ d.items = <<>>
    \/ d.shape = "dict" /\ d.key = "empty"

\* `"Error" in data`
HasError(d) == d.shape = "dict" /\ d.key = "Error"

\* lines 83-119
extract_data_from_response(d, expected_key) ==
    IF Falsy(d) THEN <<>>
    ELSE IF d.shape = "list" THEN d.items
    ELSE IF d.shape = "dict" /\ expected_key # ""
         THEN IF d.key \in {"list", "object"} THEN d.items ELSE <<>>
    ELSE <<>>

\* Variant: the last handler is missing; an exception that is none of the
\* four named kinds leaves make_request.
make_request_no_catch_all(outcome) ==
    IF outcome.kind = "ok" THEN outcome.body
    ELSE IF outcome.kind = "other" THEN JsonValue("raised", "n/a", <<>>)
    ELSE ErrorResult

\* lines 122-173, after the GET: the body of a good answer, an Error dict
\* for everything else.
make_request(outcome) ==
    IF outcome.kind = "ok" THEN outcome.body ELSE ErrorResult

\* json.dumps(items, indent=2): the text, token by token.
Token(t, v) == [t |-> t, v |-> v]
RECURSIVE JsonItems(_)
JsonItems(xs) ==
    IF xs = <<>> THEN <<>>
    ELSE IF Len(xs) = 1 THEN <<Token("object", Some(xs[1]))>>
    ELSE <<Token("object", Some(xs[1])), Token(",", None)>> \o JsonItems(Tail(xs))
JsonDumps(xs) == <<Token("[", None)>> \o JsonItems(xs) \o <<Token("]", None)>>

Reply(kind, text, json) == [kind |-> kind, text |-> text, json |-> json]

\* The validation at the head of a tool body: the error it returns, or "".
Validate(c) ==
    IF c.tool \in LocatedTools
    THEN IF ~(TruthyStr(c.city) \/ TruthyStr(c.state) \/ TruthyStr(c.zip_code))
         THEN "Error: At least one location parameter (city, state, zip_code) is required"
         ELSE IF TruthyNum(c.limit)
                 /\ (The(c.limit) < MinLimit \/ The(c.limit) > MaxLimit)
         THEN "Error: Limit must be between 1 and 1000"
         ELSE IF c.tool = "search_properties" /\ TruthyNum(c.bedrooms)
                 /\ The(c.bedrooms) < 0
         THEN "Error: Bedrooms must be non-negative"
         ELSE IF c.tool = "search_properties" /\ TruthyNum(c.bathrooms)
                 /\ The(c.bathrooms) < 0
         THEN "Error: Bathrooms must be non-negative"
         ELSE ""
    ELSE IF c.tool \in EstimateTools
    THEN IF /\ ~TruthyStr(c.property_id) /\ ~TruthyStr(c.address)
            /\ (~TruthyNum(c.latitude) \/ ~TruthyNum(c.longitude))
         THEN "Error: Must provide property_id, address, or both latitude and longitude"
         ELSE ""
    ELSE ""

\* Variant: the failure test is skipped, the data goes on to the extraction.
Respond_no_failure_test(c, d) ==
    LET xs == extract_data_from_response(d, ExpectedKey(c.tool))
    IN  IF xs = <<>>
        THEN Reply("none_found", NoneFoundMessage(c.tool), <<>>)
        ELSE Reply("json", "", JsonDumps(xs))

\* Variant: an empty extraction is encoded like any other.
Respond_empty_list(c, d) ==
    IF Falsy(d) \/ HasError(d)
    THEN Reply("unable", UnableMessage(c.tool), <<>>)
    ELSE Reply("json", "", JsonDumps(extract_data_from_response(d, ExpectedKey(c.tool))))

\* Variant: only the first item is encoded.
Respond_first_item(c, d) ==
    IF Falsy(d) \/ HasError(d)
    THEN Reply("unable", UnableMessage(c.tool), <<>>)
    ELSE LET xs == extract_data_from_response(d, ExpectedKey(c.tool))
         IN  IF xs = <<>>
             THEN Reply("none_found", NoneFoundMessage(c.tool), <<>>)
             ELSE Reply("json", "", JsonDumps(<<xs[1]>>))

\* What a tool makes of the data make_request returned: the failure test,
\* the extraction, the active filter, the encoding.
Respond(c, d) ==
    IF Falsy(d) \/ HasError(d)
    THEN Reply("unable", UnableMessage(c.tool), <<>>)
    ELSE LET xs == extract_data_from_response(d, ExpectedKey(c.tool))
         IN  IF xs = <<>>
             THEN Reply("none_found", NoneFoundMessage(c.tool), <<>>)
             ELSE IF c.tool \in FilteredTools /\ c.active_only
                  THEN Reply("json", "", JsonDumps(SelectSeq(xs, is_property_active)))
                  ELSE Reply("json", "", JsonDumps(xs))

\* A tool is called: it returns its validation error, or calls make_request,
\* which returns an Error dict at once when no API key is configured
\* (lines 125-129) and issues the GET otherwise.
tool_call ==
    /\ tPc = "idle"
    /\ \E c \in Calls, key \in BOOLEAN :
          /\ call' = c /\ apiKey' = key
          /\ IF Validate(c) # ""
             THEN /\ result' = Reply("error", Validate(c), <<>>)
                  /\ tPc' = "done"
                  /\ UNCHANGED <<requests, httpGets, data>>
             ELSE /\ requests' = requests + 1
                  /\ IF key
                     THEN /\ httpGets' = httpGets + 1
                          /\ tPc' = "http"
                          /\ UNCHANGED <<data, result>>
                     ELSE /\ data' = ErrorResult
                          /\ result' = Respond(c, ErrorResult)
                          /\ tPc' = "done"
                          /\ UNCHANGED httpGets
    /\ UNCHANGED <<notTools, httpEnd>>

\* The GET ends, make_request returns and the tool finishes.
tool_response ==
    /\ tPc = "http"
    /\ \E outcome \in HttpOutcomes :
          /\ httpEnd' = outcome.kind
          /\ data' = make_request(outcome)
          /\ result' = Respond(call, make_request(outcome))
    /\ tPc' = "done"
    /\ UNCHANGED <<notTools, call, apiKey, requests, httpGets>>

ToolsNext == tool_call \/ tool_response

\* One call of a Rentcast tool, for every tool, argument list and answer.
SpecTools == Init /\ [][ToolsNext]_vars

(***************************************************************************)
(* query() of lines 262-280 on one supervisor while another task calls     *)
(* connect() and disconnect() on it.  What matters here is where each      *)
(* request is addressed: OPENCODE_PORT=self.port is a keyword argument of   *)
(* the call of line 271, evaluated after the positional arguments, the     *)
(* awaited create_session() of line 272 among them.                        *)
(***************************************************************************)
\* A request of query(): the endpoint and the OPENCODE_PORT of its URL.
Addressed(to, p) == [to |-> to, port |-> p]

\* lines 206-214: a subprocess is spawned on a free port; handle and port are
\* stored.
racing_connect ==
    /\ rProcess = None
    /\ rSpawned < MaxSpawns
    /\ \E p \in Ports :
          /\ rProcess' = Some([pid |-> rSpawned + 1, port |-> p])
          /\ rPort' = Some(p)
    /\ rSpawned' = rSpawned + 1
    /\ UNCHANGED <<notRace, rPc, rChecked, rReqs, rResult>>

\* lines 234-244: disconnect() found a handle; its finally block clears the
\* handle and the port.
racing_disconnect ==
    /\ rProcess # None
    /\ rProcess' = None /\ rPort' = None
    /\ UNCHANGED <<notRace, rSpawned, rPc, rChecked, rReqs, rResult>>

\* lines 270-272: the assert, then the first positional argument: the
\* supplied session id, or create_session(), which asserts again and posts
\* to self.port (lines 283-289) before it suspends.  With a supplied id the
\* remaining arguments are evaluated at once and the message is posted.
racing_query_call ==
    /\ rPc \in {"idle", "done"}
    /\ IF rProcess = None
       THEN /\ rPc' = "done" /\ rResult' = "raised"
            /\ rChecked' = None /\ rReqs' = <<>>
       ELSE /\ rChecked' = Some(The(rProcess).port)
            /\ rResult' = "none"
            /\ \E given \in BOOLEAN :
                  IF given
                  THEN rPc' = "post_http" /\ rReqs' = <<Addressed("message", rPort)>>
                  ELSE rPc' = "cs_http" /\ rReqs' = <<Addressed("session", rPort)>>
    /\ UNCHANGED <<notRace, rProcess, rPort, rSpawned>>

\* lines 272-279: create_session() is resumed.  With an id the remaining
\* arguments are evaluated, OPENCODE_PORT=self.port as the supervisor holds
\* it now, and the message is posted; without one the assert of line 291
\* leaves query().
racing_session_response ==
    /\ rPc = "cs_http"
    /\ \E created \in BOOLEAN :
          IF created
          THEN /\ rReqs' = Append(rReqs, Addressed("message", rPort))
               /\ rPc' = "post_http" /\ UNCHANGED rResult
          ELSE /\ rPc' = "done" /\ rResult' = "raised" /\ UNCHANGED rReqs
    /\ UNCHANGED <<notRace, rProcess, rPort, rSpawned, rChecked>>

\* lines 56-93 and 280: the message post ends.  A URL with the port None
\* cannot be requested, the post raises; otherwise query() returns unless the
\* transport fails.
racing_post_response ==
    /\ rPc = "post_http"
    /\ rPc' = "done"
    /\ IF rReqs[Len(rReqs)].port = None
       THEN rResult' = "raised"
       ELSE rResult' \in {"returned", "raised"}
    /\ UNCHANGED <<notRace, rProcess, rPort, rSpawned, rChecked, rReqs>>

RaceNext ==
    \/ racing_connect
    \/ racing_disconnect
    \/ racing_query_call
    \/ racing_session_response
    \/ racing_post_response

\* One task in query(), another connecting and disconnecting the supervisor.
SpecRace == Init /\ [][RaceNext]_vars

(***************************************************************************)
(* Claims about the model fetch and the configuration sync loop, checked   *)
(* under SpecSync.                                                         *)
(***************************************************************************)
\* The gateway answered 200 with a data list whose entries all carry id and name.
WellFormed(resp) ==
    /\ resp.status = "200" /\ resp.body = "data"
    /\ \A i \in 1..Len(resp.data) : ~Unreadable(resp.data[i])

\* The gateway answered 200 with no data field, or with an entry that lacks
\* id or name.
Malformed(resp) ==
    /\ resp.status = "200"
    /\ \/ resp.body = "no_data"
       \/ resp.body = "data" /\ \E i \in 1..Len(resp.data) : Unreadable(resp.data[i])

\* C19: get_models_fn returns the empty list when the gateway is unreachable
\* or answers a status other than 200; when the gateway answers 200 with a
\* data list it returns, in order, one {id, name} pair per entry with that
\* entry's id and name; it raises in neither case.
C19_FetchModels ==
    gwResp # NoResponse =>
       /\ gwResp.status \in {"unreachable", "non200"} => fetched = Returned(<<>>)
       /\ WellFormed(gwResp) =>
             /\ fetched.raised = "none"
             /\ Len(fetched.value) = Len(gwResp.data)
             /\ \A i \in 1..Len(gwResp.data) :
                   /\ DOMAIN fetched.value[i] = {"id", "name"}
                   /\ {fetched.value[i].id} = gwResp.data[i].id
                   /\ {fetched.value[i].name} = gwResp.data[i].name

\* Two models were listed and both came back, in the gateway's order.
C19_Witness ==
    /\ WellFormed(gwResp) /\ Len(gwResp.data) = 2
    /\ gwResp.data[1].id = Some("m2") /\ gwResp.data[2].id = Some("m1")
    /\ gwResp.data[1].name = Some("Model Two")
    /\ fetched.raised = "none" /\ Len(fetched.value) = 2
    /\ fetched.value[1].id = "m2" /\ fetched.value[2].id = "m1"

\* C20: in a cycle where the gateway answered 200 with a malformed model
\* list, get_models_fn returns an empty result and the cycle goes on to write
\* the configuration document instead of failing.
C20_MalformedListStillWrites ==
    (syncPc \in {"tail", "sleep", "returned"} /\ Malformed(gwResp)) =>
       /\ fetched = Returned(<<>>)
       /\ syncErr # "fetch"

\* C21: with a non-positive repeat_interval update_config_task() runs one
\* cycle, writes the document once whatever the fetch gave (unless the file
\* operation itself failed), never sleeps, and returns.
C21_OneCycleOneWrite ==
    /\ repeat_interval <= 0 => syncPc # "sleep"
    /\ syncPc = "returned" =>
          /\ repeat_interval <= 0
          /\ cycles = 1
          /\ syncErr \notin {"open", "dump"} => writes = 1

\* The loop is inside update_config_task() with a positive repeat_interval.
Repeating == repeat_interval > 0 /\ syncPc \notin {"idle", "raised"}

\* C22: with a positive repeat_interval update_config_task() neither returns
\* nor lets an exception of a cycle out; from every point of the loop, a
\* failed cycle included, it gets to the sleep, and from the sleep to the
\* fetch of the next cycle, so that cycles are attempted again and again.
C22_RepeatsForever ==
    /\ [][Repeating => syncPc' \notin {"returned", "raised"}]_vars
    /\ Repeating ~> (syncPc = "sleep")
    /\ (Repeating /\ syncPc = "sleep") ~> (syncPc = "fetch")

\* A second cycle is being attempted after a first one that wrote nothing.
C22_Witness ==
    /\ Repeating /\ syncPc = "fetch" /\ cycles = 2 /\ writes = 0

\* C23: whoever reads the configuration path, at any moment of a cycle or
\* after a failed write, finds a complete document (or no file yet), never
\* an empty or partial one.
C23_AtomicOverwrite ==
    /\ file.state \in {"absent", "complete"}
    /\ file.state = "complete" => file.doc # None

\* C24: a document written by a cycle carries exactly the models the fetch
\* of that cycle returned, whatever the file held before, and autoupdate is
\* disabled in every document.
C24_RebuiltFromScratch ==
    /\ file.doc # None => The(file.doc).autoupdate = FALSE
    /\ syncWrote =>
          /\ file.state = "complete"
          /\ LET ms  == fetched.value
                 map == The(file.doc).models
             IN  /\ DOMAIN map = {ms[i].id : i \in 1..Len(ms)}
                 /\ \A i \in 1..Len(ms) :
                       (\A j \in (i+1)..Len(ms) : ms[j].id # ms[i].id)
                          => map[ms[i].id] = ms[i].name

\* A cycle whose fetch returned the empty list has overwritten a catalogue
\* with an empty model map.
C24_Witness ==
    /\ syncWrote /\ fetched.value = <<>> /\ gwResp.status = "unreachable"
    /\ truncated.state = "complete" /\ DOMAIN The(truncated.doc).models # {}
    /\ file.state = "complete" /\ DOMAIN The(file.doc).models = {}

(***************************************************************************)
(* Claims about the reply text of a query, checked under SpecParts.        *)
(***************************************************************************)
TextTyped   == {i \in 1..Len(parts) : parts[i].type = "text"}
WithText    == {i \in TextTyped : TextOf(parts[i]) # <<>>}
Last(S)     == CHOOSE i \in S : \A j \in S : j <= i
\* What query() makes of the text t that call_opencode_api_query selected.
Cleaned(t)  == Strip(strip_markers(Strip(t)))

\* C14, as stated: query() returns the text of the last text-typed part,
\* also when that part's text is empty.
C14_LastTextPart ==
    reply # None =>
       The(reply) = Cleaned(IF TextTyped = {} THEN <<>>
                            ELSE TextOf(parts[Last(TextTyped)]))

\* C14, amended: query() returns the text of the last text-typed part whose
\* text is not empty, cleaned of think blocks and surrounding blanks, and the
\* empty text when there is no such part; parts of other types and earlier
\* text parts do not count.
C14_LastNonEmptyTextPart ==
    reply # None =>
       The(reply) = Cleaned(IF WithText = {} THEN <<>>
                            ELSE TextOf(parts[Last(WithText)]))

\* A text part, then a text part with empty text, then a part of another
\* type: the first one is the reply.
C14_Witness ==
    /\ reply = Some(<<"a">>) /\ Len(parts) = 3
    /\ parts[1] = [type |-> "text", text |-> Some(<<"a">>)]
    /\ parts[2] = [type |-> "text", text |-> Some(<<>>)]
    /\ parts[3].type = "tool"

(***************************************************************************)
(* Claim about two supervisors, checked under SpecTwo.                     *)
(***************************************************************************)
\* The instance is in use: connecting with a stored port, or connected.
InUse(i) == iPc[i] \in {"probe", "connected"}

\* C25: two supervisors that are in use at the same time never hold the same
\* port.
C25_DistinctPorts ==
    \A i \in Sups : \A j \in Sups \ {i} :
       (InUse(i) /\ InUse(j)) => iPort[i] # iPort[j]

(***************************************************************************)
(* Claims about the Rentcast tools, checked under SpecTools.               *)
(***************************************************************************)
ToolDone == tPc = "done"

\* C26: whichever tool was called, when make_request returned an Error
\* result or nothing, the tool returns its 'Unable to fetch' message and no
\* data.
C26_UnableOnFailure ==
    (ToolDone /\ requests = 1 /\ (data.key = "Error" \/ data.shape = "null")) =>
       /\ result.kind = "unable"
       /\ result.text = UnableMessage(call.tool)
       /\ result.json = <<>>

\* The GET of get_property_details failed.
C26_Witness ==
    /\ ToolDone /\ call.tool = "get_property_details"
    /\ httpGets = 1 /\ data = ErrorResult /\ result.kind = "unable"

\* One of the three identifications was passed to the call.
Identified(c) ==
    \/ c.property_id # None
    \/ c.address # None
    \/ c.latitude # None /\ c.longitude # None

\* C27: get_property_value and get_rent_estimates return the 'Must provide'
\* error, with no request, exactly when no identification was passed, and
\* issue one request whenever one was passed, zero coordinates included.
C27_IdentificationRule ==
    (ToolDone /\ call.tool \in EstimateTools) =>
       /\ Identified(call) => requests = 1 /\ result.kind # "error"
       /\ ~Identified(call) => requests = 0 /\ result.kind = "error"

\* The call passed the validation the tool documents.
ValidSearch(c) ==
    /\ c.tool = "search_properties"
    /\ TruthyStr(c.city) \/ TruthyStr(c.state) \/ TruthyStr(c.zip_code)
    /\ c.limit = None \/ (MinLimit <= The(c.limit) /\ The(c.limit) <= MaxLimit)
    /\ c.bedrooms = None \/ The(c.bedrooms) >= 0
    /\ c.bathrooms = None \/ The(c.bathrooms) >= 0

\* The data holds items: as a list, or under the expected key.
HoldsItems(d) ==
    /\ d.items # <<>>
    /\ d.shape = "list" \/ (d.shape = "dict" /\ d.key \in {"list", "object"})

C29_NoneFound ==
    (ToolDone /\ requests = 1) =>
       /\ (data.shape = "dict" /\ (data.key \in {"absent", "null"}
                                    \/ (data.key = "list" /\ data.items = <<>>))) =>
             /\ result.kind = "none_found"
             /\ result.text = NoneFoundMessage(call.tool)
       /\ ((data.shape = "dict" /\ data.key = "empty")
           \/ (data.shape = "list" /\ data.items = <<>>)) =>
             result.kind = "unable"
       /\ result.kind = "json" => Len(result.json) > 2

\* A listing tool got {"listings": []}.
C29_Witness ==
    /\ ToolDone /\ call.tool = "get_sale_listings"
    /\ data = JsonValue("dict", "list", <<>>)
    /\ result.kind = "none_found"

(***************************************************************************)
(* Claim about the readiness probe, checked under SpecProbeFair.           *)
(***************************************************************************)
\* C30: the probe comes to an end; it ends with success on a 200 answer, or
\* with failure once the time budget is used up; a failed attempt only leads
\* to the sleep, and the sleep to the loop one interval later.
C30_ProbeTerminates ==
    /\ (pc \in ProbePcs) ~> (pc \notin ProbePcs)
    /\ [][ /\ (pc \in ProbePcs /\ pc' \notin ProbePcs) =>
                \/ pc' = "idle" /\ cResult' = "ok" /\ "get" \in Range(cLog')
                \/ pc' = "c_alert" /\ elapsed >= timeout /\ cResult' # "ok"
           /\ (pc = "p_loop" /\ elapsed < timeout /\ pc' # pc /\ cResult' # "ok") =>
                pc' = "p_sleep"
           /\ (pc = "p_sleep" /\ pc' # pc) =>
                pc' = "p_loop" /\ elapsed' = elapsed + SleepInterval ]_vars

\* The probe of a live subprocess ran out of time after failed attempts.
C30_Witness ==
    /\ pc = "c_alert" /\ elapsed >= timeout
    /\ "get" \in Range(cLog) /\ IsAlive(The(cProc))

(***************************************************************************)
(* The probe and an exited subprocess.                                     *)
(***************************************************************************)
\* C31: a probe attempt made once the subprocess has exited sends no GET: it
\* records the exit, neither returns ready nor spends the GET timeout, and goes
\* to the sleep of line 179; so no first GET is ever logged after the exit was
\* seen.
C31_NoGetAfterExit ==
    [][ /\ (pc = "p_loop" /\ pc' # pc /\ elapsed < timeout /\ ~IsAlive(The(cProc))) =>
              /\ cLog' = Logged(cLog, "exit_seen")
              /\ pc' = "p_sleep"
              /\ elapsed' = elapsed /\ cResult' = cResult
        /\ ("exit_seen" \in Range(cLog') /\ "get" \in Range(cLog')) =>
              Before(cLog', "get", "exit_seen")
      ]_vars

C31_Witness ==
    /\ pc = "p_sleep" /\ ~IsAlive(The(cProc))
    /\ Before(cLog, "get", "exit_seen")
    /\ elapsed >= 2 * SleepInterval

(***************************************************************************)
(* The order of the steps of connect().                                    *)
(***************************************************************************)
\* C32: connect() provisions the account, then looks up the executable, then
\* allocates the port, then spawns; a connect() that fails because no
\* executable was found has allocated no port.
C32_ProvisionLookupPortSpawn ==
    /\ "port" \in Range(cLog) =>
          Before(cLog, "provision", "binary") /\ Before(cLog, "binary", "port")
    /\ "spawn" \in Range(cLog) => Before(cLog, "port", "spawn")
    /\ cCause = "binary_not_found" => "port" \notin Range(cLog)

(***************************************************************************)
(* Claims about the Rentcast tools, checked under SpecTools.               *)
(***************************************************************************)
\* A location parameter was supplied, so the call gets as far as the limit test.
Located(c) ==
    TruthyStr(c.city) \/ TruthyStr(c.state) \/ TruthyStr(c.zip_code)

\* C33: a call of search_properties, get_sale_listings or get_rental_listings
\* with a limit below 1 or above 1000 returns the 'Limit must be between 1 and
\* 1000' error and issues no API request.
C33_LimitOutsideRangeRejected ==
    (/\ ToolDone /\ call.tool \in LocatedTools /\ Located(call)
     /\ call.limit # None
     /\ (The(call.limit) < MinLimit \/ The(call.limit) > MaxLimit)) =>
        /\ result = Reply("error", "Error: Limit must be between 1 and 1000", <<>>)
        /\ requests = 0 /\ httpGets = 0

\* C34: make_request always returns: when the GET ended with an HTTP error
\* status, a timeout, a transport error, an undecodable body or any other
\* exception, what it returns carries an Error entry; and without an API key
\* it returns an Error entry and no GET is issued.
C34_MakeRequestNeverRaises ==
    /\ (ToolDone /\ requests > 0) => data.shape \in {"null", "list", "dict"}
    /\ (ToolDone /\ httpEnd \notin {"none", "ok"}) => HasError(data)
    /\ (requests > 0 /\ ~apiKey) =>
          (ToolDone /\ HasError(data) /\ httpGets = 0 /\ httpEnd = "none")
    /\ httpGets > 0 => apiKey

C34_Witness ==
    ToolDone /\ apiKey /\ httpGets = 1 /\ httpEnd = "other" /\ HasError(data)

(***************************************************************************)
(* Claims about the session operations, checked under Spec.                *)
(***************************************************************************)
\* C35: every message post of query() goes to the session id the caller
\* supplied, or to the id a session creation of the same call returned; with
\* a supplied id the call sends no session-creation request; and when the
\* implicit creation yields no id, query() raises without posting a message.
C35_PostOnlyToKnownSession ==
    (opKind = "query" /\ opReqs # <<>>) =>
        /\ \A i \in 1..Len(opReqs) :
              opReqs[i].to = "message" =>
                 IF opGiven # None
                 THEN opReqs[i].sid = opGiven
                 ELSE /\ i > 1 /\ opReqs[i - 1].to = "session"
                      /\ opReqs[i - 1].answer = "200_id"
                      /\ opSid # None /\ opReqs[i].sid = opSid
        /\ opGiven # None => \A i \in 1..Len(opReqs) : opReqs[i].to # "session"
        /\ (opGiven = None /\ opReqs[1].answer \notin {"pending", "200_id"}) =>
              /\ OpDone("query") /\ opResult = "raised"
              /\ \A i \in 1..Len(opReqs) : opReqs[i].to # "message"

C35_Witness ==
    /\ OpDone("query") /\ opGiven # None /\ opResult = "returned"
    /\ Len(opReqs) = 1 /\ opReqs[1].to = "message" /\ opReqs[1].sid = opGiven

(***************************************************************************)
(* Claim about query() beside disconnect(), checked under SpecRace.        *)
(***************************************************************************)
\* C36: every request of a query() call is addressed to the port of the
\* subprocess that was stored when the call passed its connectedness check,
\* never to an absent port, whatever disconnect() does in the meantime.
C36_RequestsToCheckedPort ==
    \A i \in 1..Len(rReqs) :
       rReqs[i].port # None /\ rReqs[i].port = rChecked

(***************************************************************************)
(* Further claims about the supervisor and its session operations,        *)
(* checked under Spec.                                                     *)
(***************************************************************************)
\* C37: wherever connect() or disconnect() is suspended, and whenever no call
\* is running, the supervisor stores a handle and a port, or neither.
C37_HandleAndPortTogether ==
    (process = None) = (port = None)

\* disconnect() waits for the subprocess it has sent SIGTERM, handle and port
\* still stored, after an earlier connect() had failed and cleared both.
C37_Witness ==
    /\ pc = "d_wait" /\ process # None /\ port # None
    /\ Len(procs) = 2 /\ ~IsAlive(1)

\* C38: when the message post of query() ends with a connection error or a
\* timeout, query() raises and has sent no alert; when the summarize post of
\* compact() ends the same way, compact() returns false.
C38_PostFailurePropagates ==
    /\ (OpDone("query") /\ opReqs # <<>> /\ LastReq.to = "message"
           /\ LastReq.answer = "transport_error") =>
          (opResult = "raised" /\ opValue = "none" /\ opAlerts = 0)
    /\ (OpDone("compact") /\ opReqs # <<>> /\ LastReq.answer = "transport_error") =>
          (opResult = "returned" /\ opValue = "false")

C38_Witness ==
    /\ OpDone("query") /\ opGiven = None /\ Len(opReqs) = 2
    /\ LastReq.to = "message" /\ LastReq.answer = "transport_error"
    /\ opResult = "raised" /\ opAlerts = 0

(***************************************************************************)
(* Claim about the active filter, checked under SpecTools.                 *)
(***************************************************************************)
\* The call with its active_only flag turned over.
Flipped(c) == [c EXCEPT !.active_only = ~c.active_only]

====
